---- MODULE Spec2Model ----
(***************************************************************************)
(* ClusterManager of halin (src/src/App.js, lines 196-467): fan-out of an  *)
(* administrative statement over the members of a cluster, aggregation of  *)
(* the per-member outcomes, reconciliation of a user's roles per member,   *)
(* and the bounded event log.                                              *)
(*                                                                         *)
(* A behaviour is one invocation of a ClusterManager method on a freshly   *)
(* constructed manager: the per-member promises of the invocation settle   *)
(* in any order and with any outcome.  A handler (a settle callback) is    *)
(* modelled together with the chain of then/catch callbacks it triggers.   *)
(* Grant and revoke calls that are still in flight when the invocation has *)
(* delivered its result keep settling afterwards.  sentry.info and fine    *)
(* return normally; sentry.reportError returns normally unless the         *)
(* behaviour starts with reporterThrows.                                   *)
(*                                                                         *)
(* Spec is that one invocation.  SpecFair adds that every issued call      *)
(* settles; SpecReporter lets the error reporter throw; SpecCaller lets    *)
(* the caller mutate the roles array it passed; SpecTwice lets             *)
(* associateUserToRoles be called a second time; SpecConcurrent puts a     *)
(* second operation in flight beside the first; SpecLog is addEvent called *)
(* on its own; SpecDiff is determineDifferences on its own.                *)
(***************************************************************************)
EXTENDS Integers, Sequences, FiniteSets, TLC

\* ---------------------------------------------------------------- bounds
NumMembers == 2
MaxLen == 2
ExtraAppends == 3

\* ------------------------------------------------------ program constants
MAX_EVENTS == 200

\* ------------------------------------------------------------------ state
VARIABLES
    op,           \* the method of the current invocation
    arg,          \* its arguments
    status,       \* "idle", "thrown" (synchronously), "pending", "resolved", "rejected"
    result,       \* the promise the method returned
    stage,        \* per position: the step of the member's branch in flight
    gathered,     \* per position: rolesHere, the list gatherRoles resolved to
    promise,      \* per position: the member's wrapped promise (promises / allPromises)
    changes,      \* per position: the roleChanges determineDifferences returned
    applied,      \* per position: the promise applyChanges returned
    inflight,     \* grant / revoke calls issued to a member and not yet settled
    issued,       \* history: the node.run calls the invocation has issued
    failed,       \* history: the node.run calls of the invocation that failed
    settleOrder,  \* history: the positions in the order their branches settled
    appended,     \* history: the types of the events the invocation appended
    eventLog,     \* this.eventLog
    nextId,       \* the next fresh uuid
    nodeRoles,    \* per position: the roles the user holds on that member
    reporterThrows, \* whether sentry.reportError throws
    lastAdd,      \* history: the last addEvent call made from outside and its outcome
    other,        \* a second facade invocation in flight beside the first
    prior         \* history: the earlier invocations of associateUserToRoles

vars == <<op, arg, status, result, stage, gathered, promise, changes, applied,
          inflight, issued, failed, settleOrder, appended, eventLog, nextId,
          nodeRoles, reporterThrows, lastAdd, other, prior>>

\* what an invocation of the first method leaves alone
aside == <<reporterThrows, lastAdd, other, prior>>

\* ------------------------------------------------------------- JS values
\* undefined / null, strings, plain objects and arrays, tagged by type.
Undef == [t |-> "undef"]
Null == [t |-> "null"]
StrVal(s) == [t |-> "str", s |-> s]
ArrVal(items) == [t |-> "arr", items |-> items]
UserObj(username, password) ==
    [t |-> "obj", username |-> username, password |-> password]
RolePayload(username, roles) ==
    [t |-> "obj", username |-> username, roles |-> roles]
\* a reference to the array the caller passed as roles; the array itself,
\* with its current items, is arg.roles
RolesArg == [t |-> "ref", to |-> "roles"]

\* !x of JavaScript for the values above ("" stands for a missing or empty string)
Falsy(x) == x.t \in {"undef", "null"} \/ (x.t = "str" /\ x.s = "")
IsArray(x) == x.t = "arr"
IsObject(x) == x.t \in {"obj", "arr"}
\* property read x.f of a value that may be a string (no such property)
Prop(x, f) == IF x.t = "obj" /\ f \in DOMAIN x THEN StrVal(x[f]) ELSE Undef

Range(s) == {s[k] : k \in 1..Len(s)}

\* ------------------------------------------------------------ the cluster
Positions == 1..NumMembers
\* this.ctx.members(): the member handles in iteration order
Members == [i \in Positions |-> [member |-> i]]
GetBoltAddress(node) == <<"bolt", node.member>>

Roles == {"admin", "reader", "writer"}
RoleOrder == <<"admin", "reader", "writer">>
\* the rows of the roles query on a member, as a list of role names
RolesList(S) == LET In(r) == r \in S IN SelectSeq(RoleOrder, In)

\* ------------------------------------------------------ ClusterOpResult
clusterOpSuccess(node, results) ==
    [success |-> TRUE, node |-> node, addr |-> GetBoltAddress(node),
     results |-> results]

clusterOpFailure(node, err) ==
    [success |-> FALSE, node |-> node, addr |-> GetBoltAddress(node),
     err |-> err]

\* mutant: a success as soon as one member succeeded
packageAnySuccess(results) ==
    LET Ok(r) == r.success
    IN  [success |-> Len(SelectSeq(results, Ok)) > 0,
         results |-> results]

\* results.filter(r => r.success).length === results.length
packageClusterOpResults(results) ==
    LET Ok(r) == r.success
    IN  [success |-> Len(SelectSeq(results, Ok)) = Len(results),
         results |-> results]

\* ------------------------------------------------------------- promises
Pending == [state |-> "pending"]
Fulfilled(v) == [state |-> "fulfilled", value |-> v]
Rejected(e) == [state |-> "rejected", reason |-> e]

\* mutant: the values collected in the order the promises settled
PromiseAllCompletionOrder(ps) ==
    IF \E k \in 1..Len(ps) : ps[k].state = "rejected"
    THEN Rejected((CHOOSE k \in 1..Len(ps) : ps[k].state = "rejected"))
    ELSE IF \A k \in 1..Len(ps) : ps[k].state = "fulfilled"
         THEN Fulfilled([k \in 1..Len(ps) |-> ps[settleOrder'[k]].value])
         ELSE Pending

\* Promise.all over an array of promises: rejected as soon as one is,
\* fulfilled with the values in array order once all are.
PromiseAll(ps) ==
    IF \E k \in 1..Len(ps) : ps[k].state = "rejected"
    THEN Rejected((CHOOSE k \in 1..Len(ps) : ps[k].state = "rejected"))
    ELSE IF \A k \in 1..Len(ps) : ps[k].state = "fulfilled"
         THEN Fulfilled([k \in 1..Len(ps) |-> ps[k].value])
         ELSE Pending

\* --------------------------------------------------------------- EventLog
\* Ring(MAX_EVENTS).push: the ring keeps the newest MAX_EVENTS items.
RingPush(ring, x) ==
    IF Len(ring) >= MAX_EVENTS THEN Append(Tail(ring), x) ELSE Append(ring, x)

\* mutant: unshift in place of push
pushNewestFirst(ring, data) == <<data>> \o ring

\* mutant: a plain array in place of the ring
pushUnbounded(ring, data) == Append(ring, data)

\* this.eventLog.push(data)
pushEvent(ring, data) == RingPush(ring, data)

\* mutant: only the type is validated
addEventThrowsTypeOnly(event) == Falsy(event.type)

addEventThrows(event) == Falsy(event.message) \/ Falsy(event.type)

\* what a reference leads to at the moment it is followed
Deref(x) ==
    IF x.t = "obj" /\ "roles" \in DOMAIN x /\ x.roles = RolesArg
    THEN [t |-> "obj", username |-> x.username, roles |-> arg.roles]
    ELSE x

\* _.cloneDeep(event): a copy that shares no object with the event
cloneDeep(event) == [event EXCEPT !.payload = Deref(@)]

\* the entry addEvent stores: the deep copy of the event, its payload then
\* set to event.payload (or null) as the caller holds it, and a fresh id
addEventData(event, id) ==
    LET data == cloneDeep(event)
    IN  [type |-> data.type, message |-> data.message,
         payload |-> IF Falsy(event.payload) THEN Null ELSE event.payload,
         id |-> id]

\* a template string built around one interpolated value: never empty
Template(text, about) == [t |-> "str", s |-> text, about |-> about]

Event(type, message, payload) ==
    [type |-> StrVal(type), message |-> message, payload |-> payload]

\* ------------------------------------------------------ Role Reconciler
\* [...new Set(s)]: the distinct items of s in order of first occurrence
RECURSIVE SetItems(_)
SetItems(s) ==
    IF s = <<>> THEN <<>>
    ELSE LET init == SetItems(SubSeq(s, 1, Len(s) - 1))
             last == s[Len(s)]
         IN  IF last \in Range(init) THEN init ELSE Append(init, last)

\* mutant: every requested role is granted again
determineDifferencesAddAll(rolesHere, roles) ==
    LET oldRoles == SetItems(rolesHere)
        newRoles == SetItems(roles)
        NotInNew(x) == x \notin Range(newRoles)
        InNew(x) == x \in Range(newRoles)
    IN  [toAdd |-> newRoles,
         toDelete |-> SelectSeq(oldRoles, NotInNew),
         toPreserve |-> SelectSeq(oldRoles, InNew)]

\* mutant: nothing is ever revoked
determineDifferencesKeepAll(rolesHere, roles) ==
    LET oldRoles == SetItems(rolesHere)
        newRoles == SetItems(roles)
        NotInOld(x) == x \notin Range(oldRoles)
        InNew(x) == x \in Range(newRoles)
    IN  [toAdd |-> SelectSeq(newRoles, NotInOld),
         toDelete |-> <<>>,
         toPreserve |-> SelectSeq(oldRoles, InNew)]

determineDifferences(rolesHere, roles) ==
    LET oldRoles == SetItems(rolesHere)
        newRoles == SetItems(roles)
        NotInNew(x) == x \notin Range(newRoles)
        NotInOld(x) == x \notin Range(oldRoles)
        InNew(x) == x \in Range(newRoles)
    IN  [toAdd |-> SelectSeq(newRoles, NotInOld),
         toDelete |-> SelectSeq(oldRoles, NotInNew),
         toPreserve |-> SelectSeq(oldRoles, InNew)]

\* mutant: the revoke promises are left out of allRolePromises
applyCallsGrantsOnly(roleChanges) ==
    {[kind |-> "add", role |-> r] : r \in Range(roleChanges.toAdd)}

\* the node.run calls applyChanges issues: addNodeRole per toAdd entry,
\* removeNodeRole per toDelete entry
applyCalls(roleChanges) ==
    {[kind |-> "add", role |-> r] : r \in Range(roleChanges.toAdd)}
    \cup {[kind |-> "del", role |-> r] : r \in Range(roleChanges.toDelete)}

NoArg == [user |-> Undef, role |-> Undef, roles |-> Undef]
NoChanges == [toAdd |-> <<>>, toDelete |-> <<>>, toPreserve |-> <<>>]

\* ----------------------------------------------------------------- inputs
Usernames == {"", "alice"}
Passwords == {"", "x"}
\* user arguments: missing, a string, objects with or without the two keys
UserInputs ==
    {Undef, StrVal("alice")}
    \cup {UserObj(u, p) : u \in Usernames, p \in Passwords}
\* the password plays no part in deleteUser and associateUserToRoles
NamedInputs == {Undef, StrVal("alice"), UserObj("", "x"), UserObj("alice", "x")}
RoleInputs == {Undef, StrVal(""), StrVal("reader")}
\* roles arguments: missing, a string, arrays of up to MaxLen role names
RequestedRoles == {"admin", "reader"}
RoleSeqs == UNION {[1..n -> RequestedRoles] : n \in 0..MaxLen}
RolesInputs == {Undef, StrVal("admin")} \cup {ArrVal(s) : s \in RoleSeqs}
\* what the user holds on a member before the first invocation
InitialRoles == {{}, {"admin"}}

NoEvent == [type |-> Undef, message |-> Undef, payload |-> Undef]
NoOther == [op |-> "none", arg |-> NoArg, status |-> "idle",
            promise |-> [i \in Positions |-> Pending], result |-> Pending,
            at |-> 0]

InitManager ==
    /\ op = "none"
    /\ arg = NoArg
    /\ status = "idle"
    /\ result = Pending
    /\ stage = [i \in Positions |-> "idle"]
    /\ gathered = [i \in Positions |-> <<>>]
    /\ promise = [i \in Positions |-> Pending]
    /\ changes = [i \in Positions |-> NoChanges]
    /\ applied = [i \in Positions |-> Pending]
    /\ inflight = {}
    /\ issued = {}
    /\ failed = {}
    /\ settleOrder = <<>>
    /\ appended = <<>>
    /\ eventLog = <<>>
    /\ nextId = 1
    /\ nodeRoles \in [Positions -> InitialRoles]
    /\ lastAdd = [event |-> NoEvent, outcome |-> "none"]
    /\ other = NoOther
    /\ prior = [round |-> 1, converged |-> {}]

Init == InitManager /\ reporterThrows = FALSE

\* ------------------------------------------------------------ invocation
CanInvoke == status = "idle"

\* the method throws before it returns a promise
Throw(o, a) ==
    /\ op' = o
    /\ arg' = a
    /\ status' = "thrown"
    /\ result' = Pending
    /\ stage' = [i \in Positions |-> "idle"]
    /\ gathered' = [i \in Positions |-> <<>>]
    /\ promise' = [i \in Positions |-> Pending]
    /\ changes' = [i \in Positions |-> NoChanges]
    /\ applied' = [i \in Positions |-> Pending]
    /\ issued' = {}
    /\ failed' = {}
    /\ settleOrder' = <<>>
    /\ appended' = <<>>
    /\ UNCHANGED <<inflight, eventLog, nextId, nodeRoles>>
    /\ UNCHANGED aside

\* the method issues one node.run per member (kind "run" or "gather") and
\* returns the pending promise of Promise.all
Issue(o, a, kind) ==
    /\ op' = o
    /\ arg' = a
    /\ status' = "pending"
    /\ result' = Pending
    /\ stage' = [i \in Positions |-> kind]
    /\ gathered' = [i \in Positions |-> <<>>]
    /\ promise' = [i \in Positions |-> Pending]
    /\ changes' = [i \in Positions |-> NoChanges]
    /\ applied' = [i \in Positions |-> Pending]
    /\ issued' = {[pos |-> i, kind |-> kind, role |-> ""] : i \in Positions}
    /\ failed' = {}
    /\ settleOrder' = <<>>
    /\ appended' = <<>>
    /\ UNCHANGED <<inflight, eventLog, nextId, nodeRoles>>

FanOut(o, a, kind) == Issue(o, a, kind) /\ UNCHANGED aside

mapQueryAcrossCluster ==
    /\ CanInvoke
    /\ FanOut("mapQuery", NoArg, "run")

addUserThrows(user) == Falsy(user) \/ Falsy(Prop(user, "password"))

addUser(user) ==
    /\ CanInvoke
    /\ IF addUserThrows(user)
       THEN Throw("addUser", [NoArg EXCEPT !.user = user])
       ELSE FanOut("addUser", [NoArg EXCEPT !.user = user], "run")

deleteUserThrows(user) == Falsy(user) \/ Falsy(Prop(user, "username"))

deleteUser(user) ==
    /\ CanInvoke
    /\ IF deleteUserThrows(user)
       THEN Throw("deleteUser", [NoArg EXCEPT !.user = user])
       ELSE FanOut("deleteUser", [NoArg EXCEPT !.user = user], "run")

addRole(role) ==
    /\ CanInvoke
    /\ IF Falsy(role)
       THEN Throw("addRole", [NoArg EXCEPT !.role = role])
       ELSE FanOut("addRole", [NoArg EXCEPT !.role = role], "run")

deleteRole(role) ==
    /\ CanInvoke
    /\ IF Falsy(role)
       THEN Throw("deleteRole", [NoArg EXCEPT !.role = role])
       ELSE FanOut("deleteRole", [NoArg EXCEPT !.role = role], "run")

\* mutant: the username is not checked
associateThrowsNoUsername(user, roles) ==
    \/ ~IsArray(roles)
    \/ ~IsObject(user)

associateThrows(user, roles) ==
    \/ ~IsArray(roles)
    \/ ~IsObject(user)
    \/ Falsy(Prop(user, "username"))

associateUserToRoles(user, roles) ==
    /\ CanInvoke
    /\ IF associateThrows(user, roles)
       THEN Throw("associate", [NoArg EXCEPT !.user = user, !.roles = roles])
       ELSE FanOut("associate", [NoArg EXCEPT !.user = user, !.roles = roles],
                   "gather")

\* ------------------------------------------------------------ completion
\* mutant: deleteUser logs with the type copied from addUser
facadeEventCopied(o, a) ==
    LET username == Prop(a.user, "username")
    IN  CASE o \in {"addUser", "deleteUser"} ->
               Event("adduser", Template("Added user", username), username)
          [] o = "addRole" ->
               Event("addrole", Template("Created role", a.role), a.role)
          [] o = "deleteRole" ->
               Event("deleterole", Template("Deleted role", a.role), a.role)

\* the event the then-callback of a facade method appends
facadeEvent(o, a) ==
    LET username == Prop(a.user, "username")
    IN  CASE o = "addUser" ->
               Event("adduser", Template("Added user", username), username)
          [] o = "deleteUser" ->
               Event("deleteuser", Template("Deleted user", username), username)
          [] o = "addRole" ->
               Event("addrole", Template("Created role", a.role), a.role)
          [] o = "deleteRole" ->
               Event("deleterole", Template("Deleted role", a.role), a.role)

roleassocEvent(a) ==
    LET username == Prop(a.user, "username")
    IN  Event("roleassoc", Template("Associated", username),
              RolePayload(username.s, RolesArg))

Facade == {"addUser", "deleteUser", "addRole", "deleteRole"}

\* The member promises become ps.  Promise.all(ps).then(packageClusterOpResults)
\* and, for a facade method, the then-callback that appends its event, run as
\* soon as Promise.all settles; a promise that has settled stays as it is.
\* lg, id, app: the log, the next id and the appended types as the branch
\* callbacks left them.
Complete(ps, lg, id, app) ==
    LET all == PromiseAll(ps)
        agg == packageClusterOpResults(all.value)
        ev == facadeEvent(op, arg)
    IN  /\ promise' = ps
        /\ CASE status # "pending" \/ all.state = "pending" ->
                  /\ status' = status
                  /\ result' = result
                  /\ eventLog' = lg /\ nextId' = id /\ appended' = app
             [] status = "pending" /\ all.state = "rejected" ->
                  /\ status' = "rejected"
                  /\ result' = Rejected(all.reason)
                  /\ eventLog' = lg /\ nextId' = id /\ appended' = app
             [] status = "pending" /\ all.state = "fulfilled"
                  /\ op \notin Facade ->
                  /\ status' = "resolved"
                  /\ result' = Fulfilled(agg)
                  /\ eventLog' = lg /\ nextId' = id /\ appended' = app
             [] status = "pending" /\ all.state = "fulfilled"
                  /\ op \in Facade ->
                  IF addEventThrows(ev)
                  THEN /\ status' = "rejected"
                       /\ result' = Rejected("addEvent")
                       /\ eventLog' = lg /\ nextId' = id /\ appended' = app
                  ELSE /\ status' = "resolved"
                       /\ result' = Fulfilled(agg)
                       /\ eventLog' = pushEvent(lg, addEventData(ev, id))
                       /\ nextId' = id + 1
                       /\ appended' = Append(app, ev.type.s)

\* A catch callback that returns clusterOpFailure(node, err): the call of
\* sentry.reportError in it (err is never empty here) either returns, and the
\* promise is fulfilled with the failure entry, or throws, and it is rejected.
\* mutant: the catch callback hands back a promise that never settles
captureNever(node, err) == Pending

capture(node, err) ==
    IF reporterThrows THEN Rejected(<<"reportError">>)
                      ELSE Fulfilled(clusterOpFailure(node, err))

\* mutant: the chain without its catch
runPromiseNoCatch(node, ok) ==
    IF ok THEN Fulfilled(clusterOpSuccess(node, <<"rows">>))
          ELSE Rejected(<<"err">>)

\* node.run(query, params).then(clusterOpSuccess).catch(clusterOpFailure):
\* what the member's promise settles to when its run succeeded (ok) or failed
runPromise(node, ok) ==
    IF ok THEN Fulfilled(clusterOpSuccess(node, <<"rows">>))
          ELSE capture(node, <<"err">>)

\* node.run of mapQueryAcrossCluster settles for the member at position i
RunSettle(i, ok) ==
    /\ stage[i] = "run"
    /\ stage' = [stage EXCEPT ![i] = "done"]
    /\ settleOrder' = Append(settleOrder, i)
    /\ failed' = IF ok THEN failed
                 ELSE failed \cup {[pos |-> i, kind |-> "run", role |-> ""]}
    /\ Complete([promise EXCEPT ![i] = runPromise(Members[i], ok)],
                eventLog, nextId, appended)
    /\ UNCHANGED <<op, arg, gathered, changes, applied, inflight, issued,
                   nodeRoles>>
    /\ UNCHANGED aside

\* mutant: the member's chain without its final catch
branchNoCatch(node, err) == Rejected(err)

\* the catch that ends a member's chain in associateUserToRoles
branchCatch(node, err) == capture(node, err)

\* the catch of applyChanges: sentry.reportError, then clusterOpFailure
applyCatch(node, err) == capture(node, err)

\* what applyChanges resolves to when every call succeeded
applySummary(a, roleChanges) ==
    <<"Assigned roles", Prop(a.user, "username").s,
      roleChanges.toAdd, roleChanges.toDelete>>

\* mutant: the event is appended only when applyChanges reported success
AfterApplyEventOnSuccess(i, ap) ==
    LET ev == roleassocEvent(arg)
    IN  /\ stage' = [stage EXCEPT ![i] = "done"]
        /\ applied' = [applied EXCEPT ![i] = ap]
        /\ settleOrder' = Append(settleOrder, i)
        /\ IF ap.state = "rejected" \/ addEventThrows(ev)
           THEN Complete([promise EXCEPT ![i] =
                            branchCatch(Members[i], <<"err">>)],
                         eventLog, nextId, appended)
           ELSE IF ~ap.value.success
           THEN Complete([promise EXCEPT ![i] = Fulfilled(ap.value)],
                         eventLog, nextId, appended)
           ELSE Complete([promise EXCEPT ![i] =
                            Fulfilled(clusterOpSuccess(Members[i], <<>>))],
                         pushEvent(eventLog, addEventData(ev, nextId)),
                         nextId + 1, Append(appended, ev.type.s))

\* The promise of applyChanges for position i settles as ap (its catch has
\* turned a failure into a clusterOpFailure value, unless the catch threw);
\* the rest of the member's chain runs: addEvent(roleassoc), then
\* clusterOpSuccess(node), with the final catch for anything thrown or
\* rejected on the way.
AfterApply(i, ap) ==
    LET ev == roleassocEvent(arg)
    IN  /\ stage' = [stage EXCEPT ![i] = "done"]
        /\ applied' = [applied EXCEPT ![i] = ap]
        /\ settleOrder' = Append(settleOrder, i)
        /\ IF ap.state = "rejected" \/ addEventThrows(ev)
           THEN Complete([promise EXCEPT ![i] =
                            branchCatch(Members[i], <<"err">>)],
                         eventLog, nextId, appended)
           ELSE Complete([promise EXCEPT ![i] =
                            Fulfilled(clusterOpSuccess(Members[i], <<>>))],
                         pushEvent(eventLog, addEventData(ev, nextId)),
                         nextId + 1, Append(appended, ev.type.s))

\* gatherRoles settles for the member at position i
GatherSettle(i, ok) ==
    /\ stage[i] = "gather"
    /\ UNCHANGED <<op, arg, nodeRoles>>
    /\ UNCHANGED aside
    /\ failed' = IF ok THEN failed
                 ELSE failed \cup {[pos |-> i, kind |-> "gather", role |-> ""]}
    /\ IF ok
       THEN LET rolesHere == RolesList(nodeRoles[i])
                roleChanges == determineDifferences(rolesHere, arg.roles.items)
                calls == applyCalls(roleChanges)
            IN  /\ gathered' = [gathered EXCEPT ![i] = rolesHere]
                /\ changes' = [changes EXCEPT ![i] = roleChanges]
                /\ IF calls = {}
                  THEN /\ AfterApply(i, Fulfilled(clusterOpSuccess(Members[i],
                                           applySummary(arg, roleChanges))))
                       /\ UNCHANGED <<inflight, issued>>
                  ELSE /\ stage' = [stage EXCEPT ![i] = "apply"]
                       /\ inflight' = inflight \cup
                            {[pos |-> i, kind |-> c.kind, role |-> c.role] :
                             c \in calls}
                       /\ issued' = issued \cup
                            {[pos |-> i, kind |-> c.kind, role |-> c.role] :
                               c \in calls}
                       /\ UNCHANGED <<status, result, promise, applied,
                                      settleOrder, appended, eventLog, nextId>>
       ELSE /\ stage' = [stage EXCEPT ![i] = "done"]
            /\ settleOrder' = Append(settleOrder, i)
            /\ Complete([promise EXCEPT ![i] =
                           branchCatch(Members[i], <<"err">>)],
                        eventLog, nextId, appended)
            /\ UNCHANGED <<gathered, changes, applied, inflight, issued>>

\* the effect of a successful grant / revoke on the member
applyRole(held, c) ==
    IF c.kind = "add" THEN held \cup {c.role} ELSE held \ {c.role}

\* an addNodeRole / removeNodeRole call c settles
CallSettle(c, ok) ==
    /\ c \in inflight
    /\ inflight' = inflight \ {c}
    /\ nodeRoles' = IF ok THEN [nodeRoles EXCEPT ![c.pos] = applyRole(@, c)]
                          ELSE nodeRoles
    /\ failed' = IF ok THEN failed ELSE failed \cup {c}
    /\ UNCHANGED <<op, arg, gathered, changes, issued>>
    /\ UNCHANGED aside
    /\ IF stage[c.pos] = "apply"
       THEN IF ~ok
            THEN AfterApply(c.pos, applyCatch(Members[c.pos], <<"err">>))
            ELSE IF \E d \in inflight' : d.pos = c.pos
                 THEN UNCHANGED <<status, result, stage, promise, applied,
                                  settleOrder, appended, eventLog, nextId>>
                 ELSE AfterApply(c.pos,
                        Fulfilled(clusterOpSuccess(Members[c.pos],
                          applySummary(arg, changes[c.pos]))))
       ELSE UNCHANGED <<status, result, stage, promise, applied,
                        settleOrder, appended, eventLog, nextId>>

Next ==
    \/ mapQueryAcrossCluster
    \/ \E user \in UserInputs : addUser(user)
    \/ \E user \in NamedInputs : deleteUser(user)
    \/ \E role \in RoleInputs : addRole(role)
    \/ \E role \in RoleInputs : deleteRole(role)
    \/ \E user \in NamedInputs, roles \in RolesInputs :
          associateUserToRoles(user, roles)
    \/ \E i \in Positions, ok \in BOOLEAN : RunSettle(i, ok)
    \/ \E i \in Positions, ok \in BOOLEAN : GatherSettle(i, ok)
    \/ \E c \in inflight, ok \in BOOLEAN : CallSettle(c, ok)

Spec == Init /\ [][Next]_vars

\* ----------------------------------------------------- the event log alone
\* events a caller hands to addEvent: with or without message and type
EventInputs ==
    {[type |-> ty, message |-> msg, payload |-> Undef] :
        ty \in {Undef, StrVal(""), StrVal("custom")},
        msg \in {Undef, StrVal(""), StrVal("something happened")}}

\* Ring.toArray(): the retained items, oldest first
getEventLog == eventLog

\* addEvent(event) called on the manager: it throws before it touches the
\* log, or it pushes the stamped copy and returns
addEvent(event) ==
    /\ nextId <= MAX_EVENTS + ExtraAppends
    /\ IF addEventThrows(event)
       THEN /\ lastAdd' = [event |-> event, outcome |-> "thrown"]
            /\ UNCHANGED <<eventLog, nextId>>
       ELSE /\ lastAdd' = [event |-> event, outcome |-> "returned"]
            /\ eventLog' = pushEvent(eventLog, addEventData(event, nextId))
            /\ nextId' = nextId + 1
    /\ UNCHANGED <<op, arg, status, result, stage, gathered, promise,
                   changes, applied, inflight, issued, failed,
                   settleOrder, appended, nodeRoles, reporterThrows,
                   other, prior>>

\* Every node.run issued settles in the end, and the callbacks chained on a
\* settled promise are run: a settle step that can be taken is taken.  A
\* settle step, once it can be taken, stays so until it is taken, so the one
\* condition on their disjunction is what the per-call conditions give.
Settle ==
    \/ \E i \in Positions, ok \in BOOLEAN : RunSettle(i, ok)
    \/ \E i \in Positions, ok \in BOOLEAN : GatherSettle(i, ok)
    \/ \E c \in inflight, ok \in BOOLEAN : CallSettle(c, ok)

SpecFair == Spec /\ WF_vars(Settle)

\* the manager with an error reporter that may be one that throws
InitReporter == InitManager /\ reporterThrows \in BOOLEAN

SpecReporter == InitReporter /\ [][Next]_vars

\* A second admin operation under way at the same time as the first: a facade
\* method called with valid arguments while the manager may have another
\* invocation in flight.  other.at keeps, for the history, how many appends
\* had happened when its event was appended, plus one.
OtherCalls ==
    {[op |-> "addRole", arg |-> [NoArg EXCEPT !.role = StrVal("writer")]]}

otherInvoke(call) ==
    /\ other.status = "idle"
    /\ other' = [op |-> call.op, arg |-> call.arg, status |-> "pending",
                 promise |-> [i \in Positions |-> Pending],
                 result |-> Pending, at |-> 0]
    /\ UNCHANGED <<op, arg, status, result, stage, gathered, promise, changes,
                   applied, inflight, issued, failed, settleOrder, appended,
                   eventLog, nextId, nodeRoles, reporterThrows, lastAdd, prior>>

\* node.run of the second operation settles for the member at position i;
\* when it is the last one, Promise.all is fulfilled, the results are
\* packaged and the then-callback appends the operation's event
otherRunSettle(i, ok) ==
    /\ other.status = "pending"
    /\ other.promise[i].state = "pending"
    /\ LET ps == [other.promise EXCEPT ![i] = runPromise(Members[i], ok)]
           all == PromiseAll(ps)
           ev == facadeEvent(other.op, other.arg)
       IN  CASE all.state = "pending" ->
                  /\ other' = [other EXCEPT !.promise = ps]
                  /\ UNCHANGED <<eventLog, nextId>>
             [] all.state = "rejected" ->
                  /\ other' = [other EXCEPT !.promise = ps,
                                            !.status = "rejected",
                                            !.result = Rejected(all.reason)]
                  /\ UNCHANGED <<eventLog, nextId>>
             [] all.state = "fulfilled" ->
                  IF addEventThrows(ev)
                  THEN /\ other' = [other EXCEPT !.promise = ps,
                                                 !.status = "rejected",
                                                 !.result = Rejected("addEvent")]
                       /\ UNCHANGED <<eventLog, nextId>>
                  ELSE /\ other' = [other EXCEPT
                             !.promise = ps,
                             !.status = "resolved",
                             !.result = Fulfilled(
                                          packageClusterOpResults(all.value)),
                             !.at = Len(appended) + 1]
                       /\ eventLog' = pushEvent(eventLog,
                                                addEventData(ev, nextId))
                       /\ nextId' = nextId + 1
    /\ UNCHANGED <<op, arg, status, result, stage, gathered, promise, changes,
                   applied, inflight, issued, failed, settleOrder, appended,
                   nodeRoles, reporterThrows, lastAdd, prior>>

\* the first operation is here one with valid arguments
NextConcurrent ==
    \/ addUser(UserObj("alice", "x"))
    \/ associateUserToRoles(UserObj("alice", "x"), ArrVal(<<"reader">>))
    \/ Settle
    \/ \E call \in OtherCalls : otherInvoke(call)
    \/ \E i \in Positions, ok \in BOOLEAN : otherRunSettle(i, ok)

SpecConcurrent == Init /\ [][NextConcurrent]_vars

\* The caller, holding the array it passed as roles, pushes a role onto it
\* once associateUserToRoles has returned its promise.
NewRole == "writer"
CallerMutatesRoles ==
    /\ op = "associate"
    /\ status \in {"pending", "resolved", "rejected"}
    /\ NewRole \notin Range(arg.roles.items)
    /\ arg' = [arg EXCEPT !.roles = ArrVal(Append(@.items, NewRole))]
    /\ UNCHANGED <<op, status, result, stage, gathered, promise, changes,
                   applied, inflight, issued, failed, settleOrder, appended,
                   eventLog, nextId, nodeRoles>>
    /\ UNCHANGED aside

NextCaller == Next \/ CallerMutatesRoles

SpecCaller == Init /\ [][NextCaller]_vars

\* determineDifferences on its own: member 1's gatherRoles has resolved to
\* any list of role names, any array of role names is requested, and the
\* function is applied.
AnyRoleSeqs == UNION {[1..n -> Roles] : n \in 0..MaxLen}

InitDiff ==
    /\ op = "associate"
    /\ \E roles \in AnyRoleSeqs :
          arg = [NoArg EXCEPT !.user = UserObj("alice", ""),
                              !.roles = ArrVal(roles)]
    /\ status = "pending"
    /\ result = Undef
    /\ stage = [i \in Positions |-> "gather"]
    /\ \E rolesHere \in AnyRoleSeqs :
          gathered = [i \in Positions |-> IF i = 1 THEN rolesHere ELSE <<>>]
    /\ promise = [i \in Positions |-> Pending]
    /\ changes = [i \in Positions |-> NoChanges]
    /\ applied = [i \in Positions |-> Pending]
    /\ inflight = {}
    /\ issued = {}
    /\ failed = {}
    /\ settleOrder = <<>>
    /\ appended = <<>>
    /\ eventLog = <<>>
    /\ nextId = 1
    /\ nodeRoles = [i \in Positions |-> {}]
    /\ reporterThrows = FALSE
    /\ lastAdd = [event |-> NoEvent, outcome |-> "none"]
    /\ other = NoOther
    /\ prior = [round |-> 1, converged |-> {}]

Determine ==
    /\ stage[1] = "gather"
    /\ changes' = [changes EXCEPT
                     ![1] = determineDifferences(gathered[1], arg.roles.items)]
    /\ stage' = [stage EXCEPT ![1] = "apply"]
    /\ UNCHANGED <<op, arg, status, result, gathered, promise, applied,
                   inflight, issued, failed, settleOrder, appended, eventLog,
                   nextId, nodeRoles>>
    /\ UNCHANGED aside

SpecDiff == InitDiff /\ [][Determine]_vars

\* associateUserToRoles called a second time with the same arguments, once
\* the promise of the first call has resolved and none of its calls is still in
\* flight; prior keeps which members the first call brought all the way through.
associateAgain ==
    /\ op = "associate"
    /\ status = "resolved"
    /\ inflight = {}
    /\ prior.round = 1
    /\ ~associateThrows(arg.user, arg.roles)
    /\ Issue("associate", arg, "gather")
    /\ prior' = [round |-> prior.round + 1,
                 converged |-> {i \in Positions :
                                  /\ stage[i] = "done"
                                  /\ \A c \in failed : c.pos # i}]
    /\ UNCHANGED <<reporterThrows, lastAdd, other>>

NextTwice == Next \/ associateAgain

SpecTwice == Init /\ [][NextTwice]_vars

LogNext == \E event \in EventInputs : addEvent(event)

SpecLog == Init /\ [][LogNext]_vars

\* ------------------------------------------------------------ properties
MapOps == {"mapQuery"} \cup Facade
Min(a, b) == IF a < b THEN a ELSE b

RunFailed(i) == [pos |-> i, kind |-> "run", role |-> ""] \in failed
GatherFailed(i) == [pos |-> i, kind |-> "gather", role |-> ""] \in failed
ApplyFailed(i) == \E c \in failed : c.pos = i /\ c.kind \in {"add", "del"}
ApplyIssued(i) == \E c \in issued : c.pos = i /\ c.kind \in {"add", "del"}
AllSettled == \A i \in Positions : stage[i] = "done"

\* C1: the aggregated success flag of mapQueryAcrossCluster is true iff every
\* entry of results has success = true, iff no member's run failed.
C1_SuccessIffNoFailure ==
    (op \in MapOps /\ status = "resolved") =>
        LET r == result.value
        IN  /\ r.success = (\A k \in 1..Len(r.results) : r.results[k].success)
            /\ r.success = (\A i \in Positions : ~RunFailed(i))

C1_Witness ==
    /\ op = "mapQuery" /\ status = "resolved"
    /\ ~result.value.success
    /\ \E i, j \in Positions : RunFailed(i) /\ ~RunFailed(j)

\* C2: results of mapQueryAcrossCluster and of associateUserToRoles has one
\* entry per member, the entry at position i being that of the i-th member of
\* ctx.members(), whatever the order in which the members settled.
C2_ResultsInMemberOrder ==
    (op \in MapOps \cup {"associate"} /\ status = "resolved") =>
        LET rs == result.value.results
        IN  /\ Len(rs) = NumMembers
            /\ \A i \in Positions :
                  /\ rs[i].node = Members[i]
                  /\ rs[i].addr = GetBoltAddress(Members[i])
                  /\ rs[i] = promise[i].value

C2_Witness ==
    /\ op = "associate" /\ status = "resolved"
    /\ settleOrder[1] # 1
    /\ GatherFailed(1)
    /\ result.value.results[1].node = Members[1]

\* C3: mapQueryAcrossCluster delivers its result only once every member's run
\* has settled, and a failed run never rejects the returned promise: it is
\* that member's {success: false, err} entry.
C3_WaitsForAllNeverRejects ==
    op \in MapOps =>
        /\ status # "rejected"
        /\ result.state # "rejected"
        /\ result.state = "fulfilled" => AllSettled
        /\ \A i \in Positions :
              RunFailed(i) =>
                 /\ promise[i].state = "fulfilled"
                 /\ ~promise[i].value.success
                 /\ promise[i].value.err = <<"err">>
                 /\ status = "resolved" =>
                       result.value.results[i] = promise[i].value

C3_Witness ==
    /\ op = "mapQuery" /\ status = "resolved"
    /\ RunFailed(settleOrder[1])
    /\ ~RunFailed(settleOrder[NumMembers])

\* C4: in associateUserToRoles a failed grant or revoke call for a member
\* makes that member's entry and the aggregated success false.
C4_ApplyFailureFailsMember ==
    (op = "associate" /\ status = "resolved") =>
        \A i \in Positions :
            ApplyFailed(i) =>
                /\ ~result.value.results[i].success
                /\ ~result.value.success

\* C5: one invocation of associateUserToRoles appends exactly one roleassoc
\* event, and only after every member's branch has settled.
C5_OneRoleassocAfterAllSettled ==
    op = "associate" =>
        /\ status = "resolved" => appended = <<"roleassoc">>
        /\ appended # <<>> => AllSettled

OwnType(o) ==
    CASE o = "addUser" -> "adduser"
      [] o = "deleteUser" -> "deleteuser"
      [] o = "addRole" -> "addrole"
      [] o = "deleteRole" -> "deleterole"

\* C6: addUser, deleteUser, addRole and deleteRole, once past their argument
\* check, append exactly one event of their own type, whatever the members'
\* outcomes, and only after every member's run has settled.
C6_OneEventAfterAllSettled ==
    (op \in Facade /\ status # "thrown") =>
        /\ status # "rejected"
        /\ AllSettled => status = "resolved"
        /\ status = "resolved" =>
              /\ appended = <<OwnType(op)>>
              /\ Len(eventLog) = 1
              /\ eventLog[1].type = StrVal(OwnType(op))
        /\ ~AllSettled => (appended = <<>> /\ eventLog = <<>>)

C6_Witness ==
    /\ op = "deleteUser" /\ status = "resolved"
    /\ \E i, j \in Positions : RunFailed(i) /\ ~RunFailed(j)
    /\ appended = <<"deleteuser">>

\* C7: in associateUserToRoles a member whose gather step fails gets a
\* success = false entry and no grant or revoke call, the aggregate is a
\* failure, and the entry of every member depends on its own branch alone.
C7_GatherFailureIsolated ==
    op = "associate" =>
        /\ status # "rejected"
        /\ AllSettled => status = "resolved"
        /\ \A i \in Positions :
              GatherFailed(i) =>
                 /\ promise[i].state = "fulfilled"
                 /\ ~promise[i].value.success
                 /\ ~ApplyIssued(i)
                 /\ status = "resolved" =>
                       /\ ~result.value.results[i].success
                       /\ ~result.value.success
        /\ \A j \in Positions :
              (stage[j] = "done" /\ ~GatherFailed(j)) =>
                 /\ promise[j].state = "fulfilled"
                 /\ promise[j].value.success
                 /\ status = "resolved" => result.value.results[j].success

C7_Witness ==
    /\ op = "associate" /\ status = "resolved"
    /\ GatherFailed(NumMembers)
    /\ \A j \in Positions \ {NumMembers} :
          ApplyIssued(j) /\ result.value.results[j].success
    /\ ~result.value.results[NumMembers].success
    /\ ~result.value.success

\* C8: addUser with a missing or empty username or password throws
\* synchronously: no run reaches a member and no event is appended.
C8_AddUserValidates ==
    (op = "addUser"
       /\ (Falsy(Prop(arg.user, "username")) \/ Falsy(Prop(arg.user, "password"))))
    => (status = "thrown" /\ issued = {} /\ eventLog = <<>>)

ValidUser(u) == u.t = "obj" /\ u.username # ""

\* C9: associateUserToRoles with roles that is no array, or a user that is no
\* object with a non-empty username, throws synchronously: no gather, grant
\* or revoke reaches a member and the event log is unchanged.
C9_AssociateValidates ==
    (op = "associate" /\ ~(IsArray(arg.roles) /\ ValidUser(arg.user))) =>
        /\ status = "thrown"
        /\ issued = {}
        /\ inflight = {}
        /\ eventLog = <<>>
        /\ appended = <<>>

C9_Witness ==
    /\ op = "associate" /\ status = "thrown"
    /\ IsArray(arg.roles)
    /\ arg.user.t = "obj" /\ arg.user.username = ""
    /\ issued = {}

\* C10: the event log holds the newest min(n, 200) of the n events appended,
\* oldest first: never more than 200, each append to a full log evicting
\* exactly the oldest entry.
C10_LogKeepsNewest ==
    LET n == nextId - 1
        log == getEventLog
    IN  /\ Len(log) <= MAX_EVENTS
        /\ Len(log) = Min(n, MAX_EVENTS)
        /\ \A k \in 1..Len(log) : log[k].id = n - Len(log) + k

C10_Witness ==
    /\ nextId - 1 = MAX_EVENTS + 1
    /\ Len(getEventLog) = MAX_EVENTS
    /\ getEventLog[1].id = 2
    /\ getEventLog[MAX_EVENTS].id = MAX_EVENTS + 1

\* C11: a call of addEvent whose event has a missing or empty message or type
\* throws, and the log is after the call what it was before: the same entries
\* in the same order.
C11_InvalidEventRejected ==
    [][(Falsy(lastAdd'.event.message) \/ Falsy(lastAdd'.event.type))
          => /\ lastAdd'.outcome = "thrown"
             /\ getEventLog' = getEventLog]_vars

C11_Witness ==
    /\ lastAdd.outcome = "thrown"
    /\ Falsy(lastAdd.event.message)
    /\ ~Falsy(lastAdd.event.type)
    /\ Len(eventLog) > 0


\* getEventLog() as a reader sees it: each entry with its payload followed
StoredLog == [k \in 1..Len(eventLog) |-> [eventLog[k] EXCEPT !.payload = Deref(@)]]

\* C12: once addEvent has stored an entry, nothing the caller does to the
\* event or to the object its payload refers to (the roles array of
\* associateUserToRoles included) changes that entry: in every step the
\* entries stored before the step read the same after it.
C12_StoredEntryIsolated ==
    [][\A k \in 1..Len(eventLog) :
          k <= Len(eventLog') => StoredLog'[k] = StoredLog[k]]_vars

\* C13: for every list of roles the user holds and every list of requested
\* roles, duplicates allowed, determineDifferences returns toDelete = held
\* minus requested, toAdd = requested minus held, toPreserve = held and
\* requested; the three are pairwise disjoint and toPreserve with toAdd is
\* the set of requested roles.
C13_DifferencesPartition ==
    \A i \in Positions :
      op = "associate" /\ stage[i] \in {"apply", "done"} /\ ~GatherFailed(i) =>
        LET existing == Range(gathered[i])
            desired == Range(arg.roles.items)
            toAdd == Range(changes[i].toAdd)
            toDelete == Range(changes[i].toDelete)
            toPreserve == Range(changes[i].toPreserve)
        IN  /\ toDelete = existing \ desired
            /\ toAdd = desired \ existing
            /\ toPreserve = existing \cap desired
            /\ toAdd \cap toDelete = {}
            /\ toAdd \cap toPreserve = {}
            /\ toDelete \cap toPreserve = {}
            /\ toPreserve \cup toAdd = desired

C13_Witness ==
    /\ stage[1] = "apply"
    /\ gathered[1] = <<"admin", "reader">>
    /\ arg.roles.items = <<"reader", "writer">>
    /\ changes[1] = [toAdd |-> <<"writer">>, toDelete |-> <<"admin">>,
                     toPreserve |-> <<"reader">>]

\* C14: a member that associateUserToRoles has taken through a successful
\* gather and only successful grant and revoke calls holds exactly the
\* requested roles; and when the method is then called again with the same
\* roles, nothing else having touched the member, the differences computed for
\* that member are empty and no grant or revoke call is issued to it.
C14_SecondCallDoesNothing ==
    \A i \in Positions :
      /\ (op = "associate" /\ stage[i] = "done" /\ ~GatherFailed(i)
            /\ ~ApplyFailed(i))
           => nodeRoles[i] = Range(arg.roles.items)
      /\ (prior.round > 1 /\ i \in prior.converged
            /\ stage[i] \in {"apply", "done"} /\ ~GatherFailed(i))
           => /\ changes[i].toAdd = <<>>
              /\ changes[i].toDelete = <<>>
              /\ ~ApplyIssued(i)

C14_Witness ==
    /\ prior.round = 2
    /\ 1 \in prior.converged
    /\ "reader" \in Range(arg.roles.items)
    /\ stage[1] = "done"
    /\ ~GatherFailed(1)
    /\ nodeRoles[1] = Range(arg.roles.items)

\* C15: when every node.run that was issued settles in the end, an
\* invocation that returned a promise (its arguments were valid) sees that
\* promise resolve with {success, results}: it is never rejected and never
\* stays pending for ever, whichever of the calls fail.
C15_AlwaysResolves ==
    /\ [](status # "rejected")
    /\ (status = "pending") ~> (status = "resolved" /\ Len(result.value.results) = NumMembers)

C15_Witness ==
    /\ op = "associate"
    /\ status = "resolved"
    /\ GatherFailed(1)
    /\ ApplyFailed(2)
    /\ Len(result.value.results) = NumMembers

\* C16: sentry.reportError throwing while a member's failure is captured
\* changes nothing of the outcome: once every member has settled, the promise
\* of mapQueryAcrossCluster, of a facade method and of associateUserToRoles is
\* resolved with an aggregated result that has one entry per member.
C16_ReporterFailureHarmless ==
    (op \in MapOps \cup {"associate"} /\ status \notin {"idle", "thrown"}
        /\ AllSettled)
      => /\ status = "resolved"
         /\ Len(result.value.results) = NumMembers

\* C17: in associateUserToRoles a member's branch yields its result only
\* after every grant and revoke call issued for that member has settled, so
\* when the aggregated result is delivered no grant or revoke call of the
\* invocation is still in flight, also when one of the calls has failed.
C17_NoCallInFlightAtDelivery ==
    /\ \A i \in Positions :
         (op = "associate" /\ stage[i] = "done")
            => ~\E c \in inflight : c.pos = i
    /\ (op = "associate" /\ status = "resolved") => inflight = {}

\* the grant and revoke calls issued so far to the member at position i
IssuedTo(i) == {c \in issued : c.pos = i /\ c.kind \in {"add", "del"}}

\* C18: in associateUserToRoles no grant or revoke call is issued to a member
\* before that member's own gather has succeeded and its differences have
\* been computed, the calls issued being those of the differences; and the
\* members advance independently: whatever the other members are waiting
\* for, a member's pending gather can settle and its pending calls can settle.
C18_PerMemberPipeline ==
    op = "associate" =>
      /\ \A i \in Positions :
           /\ stage[i] \in {"idle", "gather"} \/ GatherFailed(i)
                => IssuedTo(i) = {}
           /\ IssuedTo(i) # {}
                => /\ changes[i] = determineDifferences(gathered[i],
                                                        arg.roles.items)
                   /\ IssuedTo(i) =
                        {[pos |-> i, kind |-> "add", role |-> r] :
                            r \in Range(changes[i].toAdd)}
                        \cup {[pos |-> i, kind |-> "del", role |-> r] :
                                r \in Range(changes[i].toDelete)}
           /\ stage[i] = "gather"
                => /\ ENABLED GatherSettle(i, TRUE)
                   /\ ENABLED GatherSettle(i, FALSE)
      /\ \A c \in inflight :
           ENABLED CallSettle(c, TRUE) /\ ENABLED CallSettle(c, FALSE)

C18_Witness ==
    /\ op = "associate"
    /\ stage[1] = "gather"
    /\ stage[2] = "done"
    /\ IssuedTo(2) # {}
    /\ ~ApplyFailed(2)
    /\ IssuedTo(1) = {}

\* s without its k-th item
Without(s, k) == [j \in 1..(Len(s) - 1) |-> IF j < k THEN s[j] ELSE s[j + 1]]

\* the event the first operation appends
OwnEvent == IF op = "associate" THEN roleassocEvent(arg) ELSE facadeEvent(op, arg)

\* C19: with several admin operations in flight at once, in every
\* interleaving of their callbacks no append is lost or torn: the log holds
\* one entry per append, each entry is whole and is the event of the
\* operation that appended it, and the entries stand in the order in which
\* the appends happened.
C19_AppendsAtomic ==
    LET n == Len(eventLog)
        mine == IF other.at > 0 THEN Without(eventLog, other.at) ELSE eventLog
    IN  /\ n = Len(appended) + (IF other.at > 0 THEN 1 ELSE 0)
        /\ other.at > 0 =>
             /\ other.at <= n
             /\ \E id \in 1..n :
                  eventLog[other.at] =
                     addEventData(facadeEvent(other.op, other.arg), id)
        /\ \A k \in 1..Len(appended) :
             /\ k <= Len(mine)
             /\ mine[k].type.s = appended[k]
             /\ \E id \in 1..n : mine[k] = addEventData(OwnEvent, id)
        /\ \A k \in 1..n : \A j \in 1..n :
             k < j => eventLog[k].id < eventLog[j].id

C19_Witness ==
    /\ op = "associate"
    /\ status = "resolved"
    /\ other.status = "resolved"
    /\ other.at = 2
    /\ Len(eventLog) = 3
    /\ eventLog[1].type.s = "roleassoc"
    /\ eventLog[2].type.s = "addrole"
    /\ eventLog[3].type.s = "roleassoc"

\* the members whose applyChanges promise has settled
ApplyFinished == {i \in Positions : applied[i].state # "pending"}

\* C20: one invocation of associateUserToRoles appends as many roleassoc
\* events as there are members whose gather succeeded: one in each such
\* member's branch at the moment its apply step finishes, failed or not, and
\* none for a member whose gather failed.
C20_RoleassocPerGatheredMember ==
    op = "associate" =>
      /\ Len(appended) = Cardinality(ApplyFinished)
      /\ \A k \in 1..Len(appended) : appended[k] = "roleassoc"
      /\ \A i \in Positions : GatherFailed(i) => i \notin ApplyFinished
      /\ \A i \in Positions :
           (stage[i] = "done" /\ ~GatherFailed(i)) => i \in ApplyFinished
      /\ status = "resolved" =>
           Len(appended) = Cardinality({i \in Positions : ~GatherFailed(i)})

C20_Witness ==
    /\ op = "associate"
    /\ status = "resolved"
    /\ GatherFailed(1)
    /\ ApplyFailed(2)
    /\ Len(appended) = Cardinality({i \in Positions : ~GatherFailed(i)})
    /\ Len(appended) < NumMembers

============================================================================
